---- MODULE Spec2Model ----
(***************************************************************************)
(* Clip / frame tuple sampling of datasets/ucf101.py (UCF101VCOPDataset,   *)
(* UCF101FOPDataset) and the permutation encoder of train_vcop.py          *)
(* (order_class_index).                                                    *)
(*                                                                         *)
(* The process-wide generator of Python's `random` module is the only      *)
(* state that survives a dataset access.  It is modelled as a finite       *)
(* deterministic generator: a state in RngSpace, random.seed(a) sets the   *)
(* state from `a` alone, every draw is a function of the state and         *)
(* advances it.  The state the process starts in (seeded from OS entropy)  *)
(* is arbitrary.                                                           *)
(*                                                                         *)
(* A window of frames videodata[a:b] is the pair <<lo, hi>> of the frame   *)
(* indices it holds, lo..hi-1, after numpy's clamping of a slice to the    *)
(* array; a single frame videodata[f] is the window <<f, f+1>>.            *)
(***************************************************************************)
EXTENDS Integers, Sequences, FiniteSets, TLC

\* ---------------------------------------------------------------- bounds
MaxClipLen == 2
MaxInterval == 1
MaxTupleLen == 3
MaxLength == 8

Indices == {0, 1}
RngStates == MaxLength + 1
RngSpace == 0..(RngStates - 1)
\* the file behind an index: its frame count, or Unreadable when the decode fails
Unreadable == 0 - 1
Videos == {Unreadable} \cup 0..MaxLength
\* random draws one stochastic transform makes on one frame (e.g. a crop offset)
TransformRange == 3

VARIABLES
    clip_len,       \* self.clip_len    (UCF101VCOPDataset)
    interval,       \* self.interval    (both datasets)
    tuple_len,      \* self.tuple_len   (both datasets)
    rng,            \* state of the module-level generator of `random`
    cls,            \* dataset class of the last access: "VCOP", "FOP", "none"
    train,          \* self.train of the dataset object accessed
    idx,            \* argument of __getitem__
    length,         \* videodata.shape[0]; -1 when the video was not read
    outcome,        \* "none", "ok", "empty" ([], []), or the exception raised
    tuple_start,    \* tuple_start; -1 when not drawn
    emitted,        \* tuple_clip / tuple_frame as built by the walk, before zip
    tuple_clip,     \* tuple_clip / tuple_frame returned (presentation order)
    tuple_order,    \* tuple_order returned
    steps,          \* the sampling steps the access executed, in order
    has_transforms, \* self.transforms_ of the dataset object accessed is set
    trans_tuple,    \* per transformed clip: its seed, the states its frames started from
    order,          \* order_class_index: argument (a permutation)
    probe,          \* a class index whose permutation is looked up
    enc,            \* order_class_index results of the encoder run
    run,            \* train / validate / test of train_vcop.py: the locals of the call
    ep,             \* the epoch loop of train_vcop.py __main__: its locals and files
    par,            \* __getitem__ calls running interleaved on one generator
    built,          \* a dataset constructor call: its arguments and what it left
    split,          \* gen_ucf101_vcop_splits: the lists read and written
    csv             \* gen_new_csv.py: the filter loop over the rows

dsvars == <<clip_len, interval, tuple_len, rng, cls, train, idx, length, outcome,
            tuple_start, emitted, tuple_clip, tuple_order, steps, has_transforms,
            trans_tuple>>
encvars == <<order, probe, enc>>
vars == <<dsvars, encvars, run, ep, par, built, split, csv>>

\* a part of the repository that is not running
NotRunning == [phase |-> "idle"]
RunIdle == run = NotRunning
EpIdle == ep = NotRunning
ParIdle == par = NotRunning
BuiltIdle == built = NotRunning
SplitIdle == split = NotRunning
CsvIdle == csv = NotRunning

\* ------------------------------------------------------------ generator

\* random.seed(a) with an int: the state is a function of a alone
seed(a) == (3 * a + 1) % RngStates

\* random.seed(x) with the float a random.random() call returned
seed_float(x) == (5 * x + 2) % RngStates

\* int.bit_length()
RECURSIVE BitLength(_)
BitLength(n) == IF n = 0 THEN 0 ELSE 1 + BitLength(n \div 2)

RECURSIVE Pow2(_)
Pow2(k) == IF k = 0 THEN 1 ELSE 2 * Pow2(k - 1)

\* Random.getrandbits(k): k bits decided by the state
getrandbits(r, k) == [value |-> r % Pow2(k), rng |-> (r + 1) % RngStates]

\* r = getrandbits(k); while r >= n: r = getrandbits(k)
RECURSIVE randbelow_loop(_, _, _)
randbelow_loop(r, n, k) ==
    LET g == getrandbits(r, k)
    IN  IF g.value >= n THEN randbelow_loop(g.rng, n, k) ELSE g

\* Random._randbelow(n) (_randbelow_with_getrandbits): a value in 0..n-1 decided by
\* the state; the number of draws it consumes depends on n and on the state
randbelow(r, n) ==
    IF n = 0
    THEN [value |-> 0, rng |-> r]
    ELSE randbelow_loop(r, n, BitLength(n))

\* random.random(): a float decided by the state (named by that state)
random_random(r) == [value |-> r, rng |-> (r + 1) % RngStates]

\* randint with the upper bound left out, as randrange(a, b) would draw
randint_exclusive(r, a, b) ==
    IF b <= a
    THEN [err |-> TRUE, value |-> 0, rng |-> r]
    ELSE LET d == randbelow(r, b - a)
         IN  [err |-> FALSE, value |-> a + d.value, rng |-> d.rng]

\* random.randint(a, b) = randrange(a, b+1): ValueError on an empty range
randint(r, a, b) ==
    IF b < a
    THEN [err |-> TRUE, value |-> 0, rng |-> r]
    ELSE LET d == randbelow(r, b - a + 1)
         IN  [err |-> FALSE, value |-> a + d.value, rng |-> d.rng]

\* random.shuffle(x): for i in reversed(range(1, len(x))): j = randbelow(i+1); swap
RECURSIVE shuffle_loop(_, _, _)
shuffle_loop(r, x, i) ==
    IF i < 1
    THEN [list |-> x, rng |-> r]
    ELSE LET d == randbelow(r, i + 1)
             j == d.value
             y == [x EXCEPT ![i + 1] = x[j + 1], ![j + 1] = x[i + 1]]
         IN  shuffle_loop(d.rng, y, i - 1)

shuffle(r, x) == shuffle_loop(r, x, Len(x) - 1)

\* ------------------------------------------------------------- sampling

Min(a, b) == IF a < b THEN a ELSE b

\* videodata[a : b] of an array of len frames, 0 <= a <= b
slice(len, a, b) == <<Min(a, len), Min(b, len)>>

\* the span of a tuple with the gaps between the clips forgotten
tuple_total_frames_no_gaps == clip_len * tuple_len

\* UCF101VCOPDataset.__init__: self.tuple_total_frames
tuple_total_frames == clip_len * tuple_len + interval * (tuple_len - 1)

\* UCF101FOPDataset.__init__: self.tuple_total_frames
fop_tuple_total_frames == tuple_len + interval * (tuple_len - 1)

\* the cursor advance of the clip walk
clip_advance(clip_start) == clip_start + clip_len + interval

\* the cursor advance of the frame walk
frame_advance(frame_idx) == frame_idx + interval

\* for _ in range(self.tuple_len): clip = videodata[clip_start: clip_start + clip_len] ...
RECURSIVE clip_walk(_, _, _, _)
clip_walk(len, clip_start, n, acc) ==
    IF n = 0
    THEN acc
    ELSE clip_walk(len, clip_advance(clip_start), n - 1,
                   Append(acc, slice(len, clip_start, clip_start + clip_len)))

\* for _ in range(self.tuple_len): tuple_frame.append(videodata[frame_idx]) ...
\* videodata[frame_idx] raises IndexError beyond the array
RECURSIVE frame_walk(_, _, _, _)
frame_walk(len, frame_idx, n, acc) ==
    IF n = 0
    THEN [err |-> FALSE, list |-> acc]
    ELSE IF frame_idx >= len
         THEN [err |-> TRUE, list |-> acc]
         ELSE frame_walk(len, frame_advance(frame_idx), n - 1,
                         Append(acc, <<frame_idx, frame_idx + 1>>))

\* the clips paired with the order labels listed backwards
zip_order_reversed(clips) ==
    [k \in 1..Len(clips) |-> [clip |-> clips[k], order |-> Len(clips) - k]]

\* list(zip(tuple_clip, tuple_order)) with tuple_order = list(range(0, tuple_len))
zip_order(clips) == [k \in 1..Len(clips) |-> [clip |-> clips[k], order |-> k - 1]]

\* self.transforms_(frame): a stochastic transform draws its parameter
transform(r) == randbelow(r, TransformRange)

\* the frames of a clip transformed after a single random.seed(seed) before the
\* first frame
RECURSIVE clip_frames_unseeded(_, _, _, _)
clip_frames_unseeded(r, n, log, starts) ==
    IF n = 0
    THEN [rng |-> r, log |-> log, starts |-> starts]
    ELSE clip_frames_unseeded(transform(r).rng, n - 1, Append(log, "transform"),
                              Append(starts, r))

clip_frames_seed_once(r, s, n, log, starts) ==
    clip_frames_unseeded(seed_float(s), n, Append(log, "seed"), starts)

\* for frame in clip: random.seed(seed); toPIL; self.transforms_(frame)
\* starts: the generator state at the start of the transform of each frame
RECURSIVE clip_frames(_, _, _, _, _)
clip_frames(r, s, n, log, starts) ==
    IF n = 0
    THEN [rng |-> r, log |-> log, starts |-> starts]
    ELSE LET t == transform(seed_float(s))
         IN  clip_frames(t.rng, s, n - 1, log \o <<"seed", "transform">>,
                         Append(starts, seed_float(s)))

\* for clip in tuple_clip: seed = random.random(); <frames of the clip>
\* trans: per clip, the seed drawn for it and the states its frames started from
RECURSIVE vcop_transforms(_, _, _, _, _)
vcop_transforms(r, clips, k, log, trans) ==
    IF k > Len(clips)
    THEN [rng |-> r, log |-> log, trans |-> trans]
    ELSE LET s == random_random(r)
             f == clip_frames(s.rng, s.value, clips[k][2] - clips[k][1],
                              Append(log, "random"), <<>>)
         IN  vcop_transforms(f.rng, clips, k + 1, f.log,
                             Append(trans, [seed |-> s.value, starts |-> f.starts]))

\* for frame in tuple_frame: toPIL; self.transforms_(frame)
RECURSIVE fop_transforms(_, _, _)
fop_transforms(r, n, log) ==
    IF n = 0
    THEN [rng |-> r, log |-> log, trans |-> <<>>]
    ELSE fop_transforms(transform(r).rng, n - 1, Append(log, "transform"))

\* what one __getitem__ call leaves behind
Result(r, out, len, start, em, clips, ord, log, trans) ==
    [rng |-> r, outcome |-> out, length |-> len, tuple_start |-> start,
     emitted |-> em, tuple_clip |-> clips, tuple_order |-> ord, steps |-> log,
     trans_tuple |-> trans]

\* try: videodata = skvideo.io.vread(filename)  except: return [],[]
vcop_vread(readable) == IF readable THEN "read" ELSE "empty"

\* videodata = skvideo.io.vread(filename), no handler around it
fop_vread(readable) == IF readable THEN "read" ELSE "DecodeError"

\* if self.train: if(length < self.tuple_total_frames): return [],[]
vcop_too_short(tr, len) == tr /\ len < tuple_total_frames

\* evaluation mode without its random.seed(idx)
mode_seed_unseeded(tr, r, i) == r

\* random.seed(idx) in the else branch of `if self.train`
mode_seed(tr, r, i) == IF tr THEN r ELSE seed(i)

\* the shuffle drawn from the generator as the start draw left it
shuffle_seed_missing(tr, r, i) == r

\* random.seed(idx) in the else branch of the second `if self.train`, before shuffle
shuffle_seed(tr, r, i) == mode_seed(tr, r, i)

\* UCF101VCOPDataset.__getitem__(idx) from generator state r0
VCOPGetItem(r0, tr, i, video, transforms_) ==
    LET readable == video >= 0
        len == video
    IN
    IF vcop_vread(readable) # "read"
    THEN Result(r0, vcop_vread(readable), -1, -1, <<>>, <<>>, <<>>, <<>>, <<>>)
    ELSE IF vcop_too_short(tr, len)
    THEN Result(r0, "empty", len, -1, <<>>, <<>>, <<>>, <<>>, <<>>)
    ELSE
    LET r1   == mode_seed(tr, r0, i)
        log1 == IF tr THEN <<>> ELSE <<"seed">>
        d    == randint(r1, 0, len - tuple_total_frames)
    IN  IF d.err
        THEN Result(r1, "ValueError", len, -1, <<>>, <<>>, <<>>, Append(log1, "randint"),
                    <<>>)
        ELSE
        LET clips == clip_walk(len, d.value, tuple_len, <<>>)
            r2    == shuffle_seed(tr, d.rng, i)
            log2  == Append(log1, "randint") \o (IF tr THEN <<>> ELSE <<"seed">>)
            sh    == shuffle(r2, zip_order(clips))
            out   == [k \in 1..Len(sh.list) |-> sh.list[k].clip]
            ord   == [k \in 1..Len(sh.list) |-> sh.list[k].order]
            log3  == Append(log2, "shuffle")
            tf    == IF transforms_
                     THEN vcop_transforms(sh.rng, out, 1, log3, <<>>)
                     ELSE [rng |-> sh.rng, log |-> log3, trans |-> <<>>]
        IN  Result(tf.rng, "ok", len, d.value, clips, out, ord, tf.log, tf.trans)

\* UCF101FOPDataset.__getitem__(idx) from generator state r0
FOPGetItem(r0, tr, i, video, transforms_) ==
    LET readable == video >= 0
        len == video
    IN
    IF fop_vread(readable) # "read"
    THEN Result(r0, fop_vread(readable), -1, -1, <<>>, <<>>, <<>>, <<>>, <<>>)
    ELSE
    LET r1   == mode_seed(tr, r0, i)
        log1 == IF tr THEN <<>> ELSE <<"seed">>
        d    == randint(r1, 0, len - fop_tuple_total_frames)
    IN  IF d.err
        THEN Result(r1, "ValueError", len, -1, <<>>, <<>>, <<>>, Append(log1, "randint"),
                    <<>>)
        ELSE
        LET w == frame_walk(len, d.value, tuple_len, <<>>)
        IN  IF w.err
            THEN Result(d.rng, "IndexError", len, d.value, w.list, <<>>, <<>>,
                        Append(log1, "randint"), <<>>)
            ELSE
            LET r2   == shuffle_seed(tr, d.rng, i)
                log2 == Append(log1, "randint") \o (IF tr THEN <<>> ELSE <<"seed">>)
                sh   == shuffle(r2, zip_order(w.list))
                out  == [k \in 1..Len(sh.list) |-> sh.list[k].clip]
                ord  == [k \in 1..Len(sh.list) |-> sh.list[k].order]
                log3 == Append(log2, "shuffle")
                tf   == IF transforms_
                        THEN fop_transforms(sh.rng, Len(out), log3)
                        ELSE [rng |-> sh.rng, log |-> log3, trans |-> <<>>]
            IN  Result(tf.rng, "ok", len, d.value, w.list, out, ord, tf.log, tf.trans)

\* -------------------------------------------------------------- encoder

\* list(range(n))
range(n) == [k \in 1..n |-> k - 1]

\* tuple(pool[i] for i in indices)
pick(pool, indices) == [k \in 1..Len(indices) |-> pool[indices[k] + 1]]

\* itertools.permutations, the body of `for i in reversed(range(r))`:
\*   cycles[i] -= 1
\*   if cycles[i] == 0: indices[i:] = indices[i+1:] + indices[i:i+1]; cycles[i] = n - i
\*   else: j = cycles[i]; swap indices[i], indices[-j]; yield; break
\*   else (loop exhausted): return
RECURSIVE perm_advance(_, _, _, _)
perm_advance(n, indices, cycles, i) ==
    IF i < 0
    THEN [done |-> TRUE, indices |-> indices, cycles |-> cycles]
    ELSE LET c == cycles[i + 1] - 1
         IN  IF c = 0
             THEN perm_advance(n,
                      [k \in 1..n |-> IF k <= i THEN indices[k]
                                      ELSE IF k < n THEN indices[k + 1]
                                      ELSE indices[i + 1]],
                      [cycles EXCEPT ![i + 1] = n - i],
                      i - 1)
             ELSE [done |-> FALSE,
                   indices |-> [indices EXCEPT ![i + 1] = indices[n - c + 1],
                                               ![n - c + 1] = indices[i + 1]],
                   cycles |-> [cycles EXCEPT ![i + 1] = c]]

\* itertools.permutations: at most `budget` rounds of `while n:` around the body
\* above, from the state (indices, cycles): the yields made, and the state reached
RECURSIVE perm_run(_, _, _, _)
perm_run(pool, indices, cycles, budget) ==
    IF budget = 0 \/ Len(pool) = 0
    THEN [done |-> Len(pool) = 0, yields |-> <<>>, indices |-> indices, cycles |-> cycles]
    ELSE LET a == perm_advance(Len(pool), indices, cycles, Len(pool) - 1)
         IN  IF a.done
             THEN [done |-> TRUE, yields |-> <<>>, indices |-> a.indices,
                   cycles |-> a.cycles]
             ELSE LET rest == perm_run(pool, a.indices, a.cycles, budget - 1)
                  IN  [rest EXCEPT !.yields = <<pick(pool, a.indices)>> \o @]

\* the whole `while n:` loop, run twelve rounds at a time (the evaluation stays
\* shallow; the rounds and their order are those of the loop)
RECURSIVE perm_loop(_, _, _)
perm_loop(pool, indices, cycles) ==
    LET b == perm_run(pool, indices, cycles, 12)
    IN  IF b.done
        THEN b.yields
        ELSE b.yields \o perm_loop(pool, b.indices, b.cycles)

\* list(itertools.permutations(pool)): indices = range(n), cycles = range(n, 0, -1),
\* the first yield is the pool itself
permutations(pool) ==
    LET n == Len(pool)
    IN  <<pool>> \o perm_loop(pool, range(n), [k \in 1..n |-> n - k + 1])

\* list.index(x): position of the first element equal to x; ValueError when absent
ValueError == 0 - 1
index(list, x) ==
    LET hits == {k \in 1..Len(list) : list[k] = x}
    IN  IF hits = {}
        THEN ValueError
        ELSE (CHOOSE k \in hits : \A m \in hits : k <= m) - 1

\* itertools.permutations(list(range(n))) depends on n alone: the list every call
\* with an order of that length builds, tabulated once per n
permutations_of_range ==
    <<permutations(range(1)), permutations(range(2)), permutations(range(3)),
      permutations(range(4)), permutations(range(5))>>

\* the enumeration over the pool listed downwards, n-1 .. 0
classes_descending(n) == permutations([k \in 1..n |-> n - k])

\* classes = list(itertools.permutations(list(range(len(order)))))
classes(n) == permutations_of_range[n]

\* the rank counted from one
order_class_index_one_based(ord) == index(classes(Len(ord)), ord) + 1

\* order_class_index(order): classes.index(tuple(order.tolist()))
order_class_index(ord) == index(classes(Len(ord)), ord)

\* ------------------------------------------------------------- machine

DataInit ==
    /\ clip_len \in 1..MaxClipLen
    /\ interval \in 0..MaxInterval
    /\ tuple_len \in 1..MaxTupleLen
    /\ rng \in RngSpace
    /\ cls = "none"
    /\ train = TRUE
    /\ idx = 0
    /\ length = -1
    /\ outcome = "none"
    /\ tuple_start = -1
    /\ emitted = <<>>
    /\ tuple_clip = <<>>
    /\ tuple_order = <<>>
    /\ steps = <<>>
    /\ has_transforms = FALSE
    /\ trans_tuple = <<>>

EncIdle ==
    /\ order = <<>>
    /\ probe = 0
    /\ enc = [done |-> FALSE]

Init == DataInit /\ EncIdle /\ RunIdle /\ EpIdle /\ ParIdle /\ BuiltIdle /\ SplitIdle /\ CsvIdle

\* one access dataset[idx] of a clip-tuple dataset object: the call runs from the
\* generator state the process is in and leaves its state and its result behind
VCOPAccess ==
    \E tr \in BOOLEAN, i \in Indices, video \in Videos, transforms_ \in BOOLEAN :
        \E res \in {VCOPGetItem(rng, tr, i, video, transforms_)} :
            /\ cls' = "VCOP"
            /\ train' = tr
            /\ idx' = i
            /\ rng' = res.rng
            /\ outcome' = res.outcome
            /\ length' = res.length
            /\ tuple_start' = res.tuple_start
            /\ emitted' = res.emitted
            /\ tuple_clip' = res.tuple_clip
            /\ tuple_order' = res.tuple_order
            /\ steps' = res.steps
            /\ has_transforms' = transforms_
            /\ trans_tuple' = res.trans_tuple
            /\ UNCHANGED <<clip_len, interval, tuple_len, encvars, run, ep, par, built, split, csv>>

\* one access dataset[idx] of a frame-tuple dataset object: the call runs from the
\* generator state the process is in and leaves its state and its result behind
FOPAccess ==
    \E tr \in BOOLEAN, i \in Indices, video \in Videos, transforms_ \in BOOLEAN :
        \E res \in {FOPGetItem(rng, tr, i, video, transforms_)} :
            /\ cls' = "FOP"
            /\ train' = tr
            /\ idx' = i
            /\ rng' = res.rng
            /\ outcome' = res.outcome
            /\ length' = res.length
            /\ tuple_start' = res.tuple_start
            /\ emitted' = res.emitted
            /\ tuple_clip' = res.tuple_clip
            /\ tuple_order' = res.tuple_order
            /\ steps' = res.steps
            /\ has_transforms' = transforms_
            /\ trans_tuple' = res.trans_tuple
            /\ UNCHANGED <<clip_len, interval, tuple_len, encvars, run, ep, par, built, split, csv>>

Next == VCOPAccess \/ FOPAccess

Spec == Init /\ [][Next]_vars

\* --------------------------------------------------------------- claims

\* the span the specification asks of a video, for clip tuples and frame tuples
ClipFramesNeeded == clip_len * tuple_len + interval * (tuple_len - 1)
FrameFramesNeeded == tuple_len + interval * (tuple_len - 1)

Slots == 1..tuple_len
Accessed(c) == cls = c /\ outcome # "none"
Disjoint(a, b) == a[2] <= b[1] \/ b[2] <= a[1]

\* C1: clip-tuple sampling, in training and in evaluation mode: whenever the video
\* holds at least clipLen*tupleLen + interval*(tupleLen-1) frames the access
\* succeeds with exactly tupleLen windows, each of exactly clipLen frames, pairwise
\* non-overlapping, every frame index within [0, length).
C1_ClipWindows ==
    (Accessed("VCOP") /\ length >= ClipFramesNeeded) =>
        /\ outcome = "ok"
        /\ Len(tuple_clip) = tuple_len
        /\ \A k \in Slots :
              /\ tuple_clip[k][2] - tuple_clip[k][1] = clip_len
              /\ 0 <= tuple_clip[k][1]
              /\ tuple_clip[k][2] <= length
        /\ \A a, b \in Slots : a # b => Disjoint(tuple_clip[a], tuple_clip[b])

\* C1 witness: an evaluation-mode access of a video that fits the tuple exactly,
\* three clips of two frames with a gap of one
C1_Witness ==
    /\ Accessed("VCOP") /\ ~train /\ outcome = "ok"
    /\ tuple_len = 3 /\ clip_len = 2 /\ interval = 1
    /\ length = ClipFramesNeeded

\* C2: clip-tuple sampling of a video shorter than the needed span returns the
\* empty sentinel ([], []) and raises nothing, in training and evaluation mode.
C2_ShortVideoSentinel ==
    (Accessed("VCOP") /\ length >= 0 /\ length < ClipFramesNeeded) => outcome = "empty"

\* C3: evaluation-mode determinism: the tuple start, the window boundaries and the
\* order labels an evaluation-mode access returns for idx are those the same call
\* returns from every other state of the generator, with or without transforms,
\* so no earlier access changes them.
C3_EvalDeterminism ==
    (Accessed("VCOP") /\ ~train /\ outcome = "ok") =>
        \A r \in RngSpace, t \in BOOLEAN :
            LET again == VCOPGetItem(r, FALSE, idx, length, t)
            IN  /\ again.outcome = "ok"
                /\ again.tuple_start = tuple_start
                /\ again.tuple_clip = tuple_clip
                /\ again.tuple_order = tuple_order

\* C3 witness: an evaluation-mode access with several possible starts and a
\* shuffle that moved the clips
C3_Witness ==
    /\ Accessed("VCOP") /\ ~train /\ outcome = "ok"
    /\ tuple_len = 3 /\ length >= ClipFramesNeeded + 2
    /\ tuple_order # <<0, 1, 2>>

\* C4: order-label pairing, for clip tuples and frame tuples: the labels returned
\* are a permutation of 0..tupleLen-1 and the element at presentation slot i is the
\* one the walk emitted as number order[i]; for clips it is the window starting at
\* tupleStart + order[i]*(clipLen + interval).
C4_OrderPairing ==
    outcome = "ok" =>
        /\ Len(tuple_order) = tuple_len
        /\ Len(tuple_clip) = tuple_len
        /\ {tuple_order[k] : k \in Slots} = 0..(tuple_len - 1)
        /\ \A k \in Slots : tuple_clip[k] = emitted[tuple_order[k] + 1]
        /\ cls = "VCOP" =>
              \A k \in Slots :
                  tuple_clip[k][1] = tuple_start + tuple_order[k] * (clip_len + interval)

\* C4 witness: a training access whose shuffle put the last clip first
C4_Witness ==
    /\ Accessed("VCOP") /\ train /\ outcome = "ok"
    /\ tuple_len = 3 /\ tuple_order[1] = 2

\* C7: frame-tuple sampling: the k-th selected frame is the frame at index
\* tupleStart + k*(1 + interval), so the selected frames are pairwise distinct for
\* every interval >= 0 and span tupleLen + interval*(tupleLen-1) frames.
C7_FrameStride ==
    (Accessed("FOP") /\ outcome = "ok") =>
        /\ \A k \in Slots : emitted[k][1] = tuple_start + (k - 1) * (1 + interval)
        /\ \A a, b \in Slots : a # b => emitted[a][1] # emitted[b][1]
        /\ emitted[tuple_len][2] - emitted[1][1] = FrameFramesNeeded

\* C8: tuple start in training mode: for a video of at least the needed span the
\* start lies in [0, length - needed], every integer of that interval is the draw
\* of some generator state, and the windows start at tupleStart + k*(clipLen +
\* interval), k = 0..tupleLen-1.
C8_TrainStartRange ==
    (Accessed("VCOP") /\ train /\ length >= ClipFramesNeeded) =>
        /\ outcome = "ok"
        /\ tuple_start \in 0..(length - ClipFramesNeeded)
        /\ \A s \in 0..(length - ClipFramesNeeded) :
              \E r \in RngSpace :
                  VCOPGetItem(r, TRUE, idx, length, FALSE).tuple_start = s
        /\ \A k \in Slots : emitted[k][1] = tuple_start + (k - 1) * (clip_len + interval)

\* C8 witness: the example of the specification scaled down (three clips, more
\* than one possible start), the start drawn at the upper end of its interval
C8_Witness ==
    /\ Accessed("VCOP") /\ train /\ outcome = "ok"
    /\ tuple_len = 3 /\ interval = 1
    /\ length >= ClipFramesNeeded + 2
    /\ tuple_start = length - ClipFramesNeeded

\* C9: a video the frame source cannot read yields the empty sentinel ([], []),
\* for both dataset classes and both modes, and no sampling step (seed, draw,
\* shuffle, transform) runs in that access.
C9_DecodeFailureSentinel ==
    (cls # "none" /\ outcome # "none" /\ length = Unreadable) =>
        outcome = "empty" /\ steps = <<>>

\* C10: frame-tuple sampling of a video shorter than tupleLen +
\* interval*(tupleLen-1) frames returns the empty sentinel and raises nothing.
C10_ShortVideoSentinelFOP ==
    (Accessed("FOP") /\ length >= 0 /\ length < FrameFramesNeeded) => outcome = "empty"

\* the steps one clip of clip_len frames takes in the transform loop: its seed
\* drawn, then a reseed and a transform per frame
ClipStepCount == 1 + 2 * clip_len
ClipStep(j) == IF j = 1 THEN "random" ELSE IF j % 2 = 0 THEN "seed" ELSE "transform"

\* C11: per-clip transform consistency (clip tuples, transform configured): one
\* transform seed is drawn per clip, separately for each clip of the tuple, and the
\* generator is reseeded with that clip's seed immediately before the transform of
\* each of its frames, so every frame of a clip starts its transform from the same
\* generator state.
C11_PerClipTransformSeed ==
    (Accessed("VCOP") /\ outcome = "ok" /\ has_transforms) =>
        LET base == Len(steps) - tuple_len * ClipStepCount
        IN  /\ base >= 1
            /\ steps[base] = "shuffle"
            /\ \A k \in Slots : \A j \in 1..ClipStepCount :
                  steps[base + (k - 1) * ClipStepCount + j] = ClipStep(j)
            /\ Cardinality({j \in 1..Len(steps) : steps[j] = "random"}) = tuple_len
            /\ Len(trans_tuple) = tuple_len
            /\ \A k \in Slots :
                  /\ Len(trans_tuple[k].starts) = clip_len
                  /\ \A a, b \in 1..clip_len :
                        trans_tuple[k].starts[a] = trans_tuple[k].starts[b]
                  /\ \A a \in 1..clip_len :
                        trans_tuple[k].starts[a] = seed_float(trans_tuple[k].seed)

\* C11 witness: three clips of two frames transformed, two of them under
\* different seeds
C11_Witness ==
    /\ Accessed("VCOP") /\ outcome = "ok" /\ has_transforms
    /\ tuple_len = 3 /\ clip_len = 2
    /\ trans_tuple[1].seed # trans_tuple[2].seed

\* C15: in evaluation mode the generator is reseeded with idx immediately before the
\* shuffle, so the order labels of an evaluation access are those of the access
\* with the same idx and tupleLen to a video of any other sufficient length, from
\* any generator state, even when the tuple starts differ.
C15_ShuffleIndependentOfLength ==
    (Accessed("VCOP") /\ ~train /\ outcome = "ok") =>
        /\ \E j \in 2..Len(steps) : steps[j] = "shuffle" /\ steps[j - 1] = "seed"
        /\ \A len2 \in ClipFramesNeeded..MaxLength, r \in RngSpace :
              LET other == VCOPGetItem(r, FALSE, idx, len2, FALSE)
              IN  other.outcome = "ok" /\ other.tuple_order = tuple_order

\* C15 witness: an evaluation access of three clips for which a video of another
\* length gives another tuple start
C15_Witness ==
    /\ Accessed("VCOP") /\ ~train /\ outcome = "ok"
    /\ tuple_len = 3
    /\ \E len2 \in ClipFramesNeeded..MaxLength :
          /\ len2 # length
          /\ VCOPGetItem(rng, FALSE, idx, len2, FALSE).tuple_start # tuple_start

\* ------------------------------------------------------ encoder machine

\* tuple_len: number of clips in each tuple (2 in the split generation, 3/4/5 documented)
EncTupleLens == 2..5

RECURSIVE Factorial(_)
Factorial(n) == IF n <= 1 THEN 1 ELSE n * Factorial(n - 1)

\* every permutation of 0..n-1, as a set
PermSet(n) == {f \in [1..n -> 0..(n - 1)] : \A a, b \in 1..n : f[a] = f[b] => a = b}

DataIdle ==
    /\ clip_len = 1
    /\ interval = 0
    /\ tuple_len = 1
    /\ rng = 0
    /\ cls = "none"
    /\ train = TRUE
    /\ idx = 0
    /\ length = -1
    /\ outcome = "none"
    /\ tuple_start = -1
    /\ emitted = <<>>
    /\ tuple_clip = <<>>
    /\ tuple_order = <<>>
    /\ steps = <<>>
    /\ has_transforms = FALSE
    /\ trans_tuple = <<>>

\* an order vector a dataset returned, and a class index of the same arity
EncInit ==
    /\ DataIdle /\ RunIdle /\ EpIdle /\ ParIdle /\ BuiltIdle /\ SplitIdle /\ CsvIdle
    /\ \E n \in EncTupleLens :
          /\ order \in PermSet(n)
          /\ probe \in 0..(Factorial(n) - 1)
    /\ enc = [done |-> FALSE]

\* the permutation the enumeration holds at class index k (<<>> when it holds none)
decode(n, k) == IF k < Len(classes(n)) THEN classes(n)[k + 1] ELSE <<>>

\* targets = [order_class_index(order) for order in tuple_orders], for the order
\* vector and for the permutation of the probed class index
Encode ==
    /\ ~enc.done
    /\ LET q == decode(Len(order), probe)
       IN  enc' = [done |-> TRUE,
                   target |-> order_class_index(order),
                   decoded |-> q,
                   target_decoded |-> IF q = <<>> THEN ValueError ELSE order_class_index(q)]
    /\ UNCHANGED <<dsvars, order, probe, run, ep, par, built, split, csv>>

EncNext == Encode

SpecEnc == EncInit /\ [][EncNext]_vars

\* ------------------------------------------------------- encoder claims

LexLess(p, q) ==
    \E k \in 1..Len(p) : p[k] < q[k] /\ \A m \in 1..(k - 1) : p[m] = q[m]

Identity(n) == [k \in 1..n |-> k - 1]
Reversed(n) == [k \in 1..n |-> n - k]

\* C5: for tupleLen in 2..5 order_class_index is a bijection from the permutations
\* of 0..tupleLen-1 onto 0..tupleLen!-1: a class index is in range, two different
\* permutations get different indices, every index k is the index of the
\* permutation listed at k (encode(decode(k)) = k), and the permutation listed at
\* the index of p is p (decode(encode(p)) = p).
C5_EncodingBijection ==
    enc.done =>
        LET n == Len(order)
        IN  /\ enc.target \in 0..(Factorial(n) - 1)
            /\ enc.decoded \in PermSet(n)
            /\ enc.target_decoded = probe
            /\ decode(n, enc.target) = order
            /\ order # enc.decoded => enc.target # enc.target_decoded

\* C5 witness: two different orders of five clips, the second the last class
C5_Witness ==
    /\ enc.done
    /\ Len(order) = 5
    /\ probe = Factorial(5) - 1
    /\ order # enc.decoded

\* C6: order_class_index is the 0-based lexicographic rank: the identity order is
\* class 0, the reversed order is class tupleLen!-1, and p precedes q
\* lexicographically exactly when class(p) < class(q).
C6_LexicographicRank ==
    enc.done =>
        LET n == Len(order)
        IN  /\ order = Identity(n) => enc.target = 0
            /\ order = Reversed(n) => enc.target = Factorial(n) - 1
            /\ LexLess(order, enc.decoded) <=> enc.target < enc.target_decoded

\* C6 witness: two orders of four clips that first differ in their third label
C6_Witness ==
    /\ enc.done
    /\ Len(order) = 4
    /\ order[1] = enc.decoded[1] /\ order[2] = enc.decoded[2]
    /\ order[3] < enc.decoded[3]

\* ---------------------------------------------------- training loops

\* bounds of the loop runs: args.bs, args.pf, len(dataloader), loss.item()
MaxBs == 2
MaxPf == 2
MaxTrainBatches == 4
MaxValBatches == 17
MaxTestBatches == 3
MaxBatchLoss == 1

\* `if i*args.bs > 40: break` of train
TrainSampleCap == 40
\* `if(i*args.bs > 16) : break` of validate
ValSampleCap == 16
\* `avg_loss = total_loss / (16-total_small)` of validate
ValDivisor == 16

\* a batch as the DataLoader delivers it: Dropped is tuple_clips == [] (the empty
\* sentinel collated), otherwise `hits` of its bs predictions are right and
\* criterion gives `loss`
Dropped == [kind |-> "empty"]
Batches(bs) ==
    {Dropped} \cup [kind : {"valid"}, hits : 0..bs, loss : 1..MaxBatchLoss]

\* a / b of Python: ZeroDivisionError when b = 0; the quotient kept as the pair
Divide(a, b) == IF b = 0 THEN "ZeroDivisionError" ELSE <<a, b>>

\* the locals of a call train(...), validate(...) or test(...) at its start;
\* seen, dropped, evaluated count the batches delivered, delivered empty, and
\* evaluated by the model; logged counts the "too small" lines printed
RunStart(fn, bs, pf, n) ==
    [phase |-> "running", fn |-> fn, bs |-> bs, pf |-> pf, len |-> n,
     seen |-> 0, total_small |-> 0, correct |-> 0, loss |-> 0,
     logged |-> 0, dropped |-> 0, evaluated |-> 0, right |-> 0,
     avg_loss |-> "unset", avg_acc |-> "unset"]

LoopInit ==
    /\ DataIdle /\ EncIdle /\ EpIdle /\ ParIdle /\ BuiltIdle /\ SplitIdle /\ CsvIdle
    /\ \/ \E bs \in 1..MaxBs, pf \in 1..MaxPf, n \in 0..MaxTrainBatches :
             run = RunStart("train", bs, pf, n)
       \/ \E bs \in 1..MaxBs, n \in 0..MaxValBatches :
             run = RunStart("validate", bs, 1, n)
       \/ \E bs \in 1..MaxBs, n \in 0..MaxTestBatches :
             run = RunStart("test", bs, 1, n)

Running(fn) == run.phase = "running" /\ run.fn = fn
LoopRest == UNCHANGED <<dsvars, encvars, ep, par, built, split, csv>>

\* train: the statements of the loop body after `continue` was not taken:
\* running_loss += loss.item(); correct += ...; if i % args.pf == 0: <averages>
train_evaluate(r, i, b) ==
    LET r1 == [r EXCEPT !.loss = @ + b.loss, !.correct = @ + b.hits,
                        !.evaluated = @ + 1, !.right = @ + b.hits]
    IN  IF i % r.pf # 0
        THEN r1
        ELSE LET al == Divide(r1.loss, r.pf - r.total_small)
                 aa == Divide(r1.correct, (r.pf - r.total_small) * r.bs)
             IN  IF al = "ZeroDivisionError"
                 THEN [r1 EXCEPT !.phase = "ZeroDivisionError"]
                 ELSE [r1 EXCEPT !.avg_loss = al, !.avg_acc = aa,
                                 !.loss = 0, !.correct = 0]

\* train: one round of `for i, data in enumerate(train_dataloader, 1)`
train_body(r, i, b) ==
    IF i * r.bs > TrainSampleCap
    THEN [r EXCEPT !.phase = "done"]
    ELSE IF b = Dropped
         THEN [r EXCEPT !.logged = @ + 1, !.total_small = @ + 1, !.dropped = @ + 1]
         ELSE train_evaluate(r, i, b)

TrainRound ==
    /\ Running("train") /\ run.seen < run.len
    /\ \E b \in Batches(run.bs) :
          run' = train_body([run EXCEPT !.seen = @ + 1], run.seen + 1, b)
    /\ LoopRest

\* train: the dataloader is exhausted, the function returns
TrainReturn ==
    /\ Running("train") /\ run.seen = run.len
    /\ run' = [run EXCEPT !.phase = "done"]
    /\ LoopRest

\* validate: the statements after the loop
\*   avg_loss = total_loss / (16-total_small); avg_acc = correct / (16-total_small)
validate_finish(r) ==
    LET al == Divide(r.loss, ValDivisor - r.total_small)
        aa == Divide(r.correct, ValDivisor - r.total_small)
    IN  IF al = "ZeroDivisionError"
        THEN [r EXCEPT !.phase = "ZeroDivisionError"]
        ELSE [r EXCEPT !.phase = "done", !.avg_loss = al, !.avg_acc = aa]

\* validate: one round of `for i, data in enumerate(val_dataloader)`; the break
\* leads to the statements after the loop
validate_body(r, i, b) ==
    IF i * r.bs > ValSampleCap
    THEN validate_finish(r)
    ELSE IF b = Dropped
         THEN [r EXCEPT !.total_small = @ + 1, !.logged = @ + 1, !.dropped = @ + 1]
         ELSE [r EXCEPT !.loss = @ + b.loss, !.correct = @ + b.hits,
                        !.evaluated = @ + 1, !.right = @ + b.hits]

ValidateRound ==
    /\ Running("validate") /\ run.seen < run.len
    /\ \E b \in Batches(run.bs) :
          run' = validate_body([run EXCEPT !.seen = @ + 1], run.seen, b)
    /\ LoopRest

\* validate: the dataloader is exhausted
ValidateReturn ==
    /\ Running("validate") /\ run.seen = run.len
    /\ run' = validate_finish(run)
    /\ LoopRest

\* test: one round of `for i, data in enumerate(test_dataloader, 1)`; there is no
\* check for the sentinel, inputs = tuple_clips.to(device) is called on the list
test_body(r, b) ==
    IF b = Dropped
    THEN [r EXCEPT !.phase = "AttributeError", !.dropped = @ + 1]
    ELSE [r EXCEPT !.loss = @ + b.loss, !.correct = @ + b.hits,
                   !.evaluated = @ + 1, !.right = @ + b.hits]

TestRound ==
    /\ Running("test") /\ run.seen < run.len
    /\ \E b \in Batches(run.bs) :
          run' = test_body([run EXCEPT !.seen = @ + 1], b)
    /\ LoopRest

\* test: avg_loss = total_loss / len(test_dataloader);
\*       avg_acc = correct / len(test_dataloader.dataset)
TestReturn ==
    /\ Running("test") /\ run.seen = run.len
    /\ run' = LET al == Divide(run.loss, run.len)
                  aa == Divide(run.correct, run.len * run.bs)
              IN  IF al = "ZeroDivisionError"
                  THEN [run EXCEPT !.phase = "ZeroDivisionError"]
                  ELSE [run EXCEPT !.phase = "done", !.avg_loss = al, !.avg_acc = aa]
    /\ LoopRest

LoopNext ==
    \/ TrainRound \/ TrainReturn
    \/ ValidateRound \/ ValidateReturn
    \/ TestRound \/ TestReturn

SpecLoop == LoopInit /\ [][LoopNext]_vars

\* C12: dropped samples never crash the run: whatever batches (valid or the empty
\* sentinel) the loops are given and whatever the batch size, train, validate and
\* test raise nothing, also not in their averages, and every dropped batch is
\* logged and counted exactly once.
C12_DroppedSamplesNeverCrash ==
    run.phase # "idle" =>
        /\ run.phase \in {"running", "done"}
        /\ run.logged = run.dropped
        /\ run.total_small = run.dropped

\* C18: validate's averages are over what was evaluated: avg_acc is the number of
\* correct predictions divided by the number of evaluated samples, so it lies in
\* [0, 1], and the divisor 16 - total_small is the number of evaluated batches.
C18_ValidateAverages ==
    (run.phase = "done" /\ run.fn = "validate") =>
        /\ run.avg_acc[1] = run.right
        /\ run.avg_acc[2] = run.evaluated * run.bs
        /\ 0 <= run.avg_acc[1] /\ run.avg_acc[1] <= run.avg_acc[2]
        /\ ValDivisor - run.total_small = run.evaluated

\* ------------------------------------- interleaved __getitem__ calls

\* the calls run as threads of one interpreter, where `random` is one module
\* object and its functions work on one hidden generator: variable rng
Calls == {1, 2}
ParLengths == (MaxLength - 1)..MaxLength

\* where a call stands after vread and the training-mode length check
call_enter(tr, len) ==
    IF vcop_too_short(tr, len) THEN "empty" ELSE IF tr THEN "randint" ELSE "seed"

Call(tr, i, len) ==
    [pc |-> call_enter(tr, len), train |-> tr, idx |-> i, length |-> len,
     tuple_start |-> -1, tuple_order |-> <<>>]

ParInit ==
    /\ clip_len \in 1..MaxClipLen
    /\ interval \in 0..MaxInterval
    /\ tuple_len \in 1..MaxTupleLen
    /\ rng \in RngSpace
    /\ cls = "none" /\ train = TRUE /\ idx = 0 /\ length = -1 /\ outcome = "none"
    /\ tuple_start = -1 /\ emitted = <<>> /\ tuple_clip = <<>> /\ tuple_order = <<>>
    /\ steps = <<>> /\ has_transforms = FALSE /\ trans_tuple = <<>>
    /\ EncIdle /\ RunIdle /\ EpIdle /\ BuiltIdle /\ SplitIdle /\ CsvIdle
    /\ \E tr2 \in BOOLEAN, i1 \in Indices, i2 \in Indices,
          l1 \in ParLengths, l2 \in ParLengths :
          par = [phase |-> "running",
                 calls |-> <<Call(FALSE, i1, l1), Call(tr2, i2, l2)>>]

ParRest ==
    UNCHANGED <<clip_len, interval, tuple_len, cls, train, idx, length, outcome,
                tuple_start, emitted, tuple_clip, tuple_order, steps,
                has_transforms, trans_tuple, encvars, run, ep, built, split, csv>>

At(c, pc) == par.phase = "running" /\ par.calls[c].pc = pc

\* random.seed(idx) before the start draw (evaluation mode)
ParSeed(c) ==
    /\ At(c, "seed")
    /\ rng' = mode_seed(par.calls[c].train, rng, par.calls[c].idx)
    /\ par' = [par EXCEPT !.calls[c].pc = "randint"]
    /\ ParRest

\* tuple_start = random.randint(0, length - self.tuple_total_frames)
ParRandint(c) ==
    /\ At(c, "randint")
    /\ \E d \in {randint(rng, 0, par.calls[c].length - tuple_total_frames)} :
          /\ rng' = d.rng
          /\ par' = IF d.err
                    THEN [par EXCEPT !.calls[c].pc = "ValueError"]
                    ELSE [par EXCEPT !.calls[c].tuple_start = d.value,
                                     !.calls[c].pc =
                                        IF par.calls[c].train THEN "shuffle" ELSE "reseed"]
    /\ ParRest

\* random.seed(idx) before the shuffle (evaluation mode)
ParReseed(c) ==
    /\ At(c, "reseed")
    /\ rng' = shuffle_seed(par.calls[c].train, rng, par.calls[c].idx)
    /\ par' = [par EXCEPT !.calls[c].pc = "shuffle"]
    /\ ParRest

\* the clip walk, zip, random.shuffle(clip_and_order), unzip
ParShuffle(c) ==
    /\ At(c, "shuffle")
    /\ \E sh \in {shuffle(rng, zip_order(clip_walk(par.calls[c].length,
                                                  par.calls[c].tuple_start,
                                                  tuple_len, <<>>)))} :
          /\ rng' = sh.rng
          /\ par' = [par EXCEPT !.calls[c].pc = "done",
                                !.calls[c].tuple_order =
                                    [k \in 1..Len(sh.list) |-> sh.list[k].order]]
    /\ ParRest

ParNext ==
    \E c \in Calls : ParSeed(c) \/ ParRandint(c) \/ ParReseed(c) \/ ParShuffle(c)

SpecPar == ParInit /\ [][ParNext]_vars

\* C13: evaluation-mode determinism under parallel execution: a finished
\* evaluation-mode call for index idx, whatever other call ran interleaved with
\* it, has the tuple start and order labels of the same call run alone.
C13_ParallelEvalDeterminism ==
    par.phase = "running" =>
        \A c \in Calls :
            (par.calls[c].pc = "done" /\ ~par.calls[c].train) =>
                LET alone == VCOPGetItem(0, FALSE, par.calls[c].idx,
                                         par.calls[c].length, FALSE)
                IN  /\ alone.outcome = "ok"
                    /\ par.calls[c].tuple_start = alone.tuple_start
                    /\ par.calls[c].tuple_order = alone.tuple_order

\* ------------------------------------------------ dataset constructors

\* the integers a caller may pass as clip_len, interval, tuple_len
MaxCtorArg == 2
CtorArgs == (0 - 1)..MaxCtorArg

\* no dataset object exists yet
CtorInit ==
    /\ clip_len = 0 /\ interval = 0 /\ tuple_len = 0 /\ rng = 0
    /\ cls = "none" /\ train = TRUE /\ idx = 0 /\ length = -1 /\ outcome = "none"
    /\ tuple_start = -1 /\ emitted = <<>> /\ tuple_clip = <<>> /\ tuple_order = <<>>
    /\ steps = <<>> /\ has_transforms = FALSE /\ trans_tuple = <<>>
    /\ EncIdle /\ RunIdle /\ EpIdle /\ ParIdle /\ BuiltIdle /\ SplitIdle /\ CsvIdle

CtorRest ==
    UNCHANGED <<rng, idx, length, outcome, tuple_start, emitted, tuple_clip,
                tuple_order, steps, has_transforms, trans_tuple, encvars,
                run, ep, par, split, csv>>

\* pd.read_csv(split path): the only statement of __init__ that can raise
read_csv(exists) == IF exists THEN "constructed" ELSE "FileNotFoundError"

\* UCF101VCOPDataset(root_dir, clip_len, interval, tuple_len, train)
VCOPConstruct ==
    \E cl \in CtorArgs, iv \in CtorArgs, tl \in CtorArgs,
       tr \in BOOLEAN, split_exists \in BOOLEAN :
        /\ cls' = "VCOP"
        /\ clip_len' = cl
        /\ interval' = iv
        /\ tuple_len' = tl
        /\ train' = tr
        /\ built' = [phase |-> read_csv(split_exists),
                     tuple_total_frames |-> tuple_total_frames']
        /\ CtorRest

\* UCF101FOPDataset(root_dir, interval, tuple_len, train); it has no clip_len
FOPConstruct ==
    \E iv \in CtorArgs, tl \in CtorArgs, tr \in BOOLEAN, split_exists \in BOOLEAN :
        /\ cls' = "FOP"
        /\ clip_len' = 0
        /\ interval' = iv
        /\ tuple_len' = tl
        /\ train' = tr
        /\ built' = [phase |-> read_csv(split_exists),
                     tuple_total_frames |-> fop_tuple_total_frames']
        /\ CtorRest

CtorNext == VCOPConstruct \/ FOPConstruct

SpecCtor == CtorInit /\ [][CtorNext]_vars

\* C14: invalid configuration fails fast: a dataset that was constructed without
\* an error has a positive tuple_len, a positive clip_len (VCOP), and an interval
\* with which the cursor of the walk advances by a positive amount.
C14_InvalidConfigRejected ==
    built.phase = "constructed" =>
        /\ tuple_len > 0
        /\ cls = "VCOP" => (clip_len > 0 /\ clip_advance(0) > 0)
        /\ cls = "FOP" => frame_advance(0) > 0

\* ------------------------------------------- gen_ucf101_vcop_splits

\* the lengths of trainlist01.txt / testlist01.txt and the lists they can hold: a
\* video is its row (its name) and the @nb_frames ffprobe reports for it
SplitLens == {0, 1, 2}
SplitLists ==
    UNION {[1..n -> 0..MaxLength] : n \in SplitLens}
read_split(frames) == [k \in 1..Len(frames) |-> [name |-> k, nb_frames |-> frames[k]]]

\* minimum length of video to extract one tuple
min_video_len == clip_len * tuple_len + interval * (tuple_len - 1)

\* a filter that wants one frame more than the tuple needs
video_longer(video) == video.nb_frames > min_video_len

\* _video_longer_enough(filename)
video_longer_enough(video) == video.nb_frames >= min_video_len

\* series[mask]: the rows whose mask entry is True, in the order of the series
RECURSIVE boolean_index(_, _, _)
boolean_index(series, mask, k) ==
    IF k > Len(series)
    THEN <<>>
    ELSE (IF mask[k] THEN <<series[k]>> ELSE <<>>) \o boolean_index(series, mask, k + 1)

\* split[split.apply(_video_longer_enough)]
apply_filter(series) ==
    boolean_index(series, [k \in 1..Len(series) |-> video_longer_enough(series[k])], 1)

\* gen_ucf101_vcop_splits(root_dir, clip_len, interval, tuple_len) is called
SplitInit ==
    /\ clip_len \in 1..MaxClipLen
    /\ interval \in 0..MaxInterval
    /\ tuple_len \in 1..MaxTupleLen
    /\ rng = 0
    /\ cls = "none" /\ train = TRUE /\ idx = 0 /\ length = -1 /\ outcome = "none"
    /\ tuple_start = -1 /\ emitted = <<>> /\ tuple_clip = <<>> /\ tuple_order = <<>>
    /\ steps = <<>> /\ has_transforms = FALSE /\ trans_tuple = <<>>
    /\ EncIdle /\ RunIdle /\ EpIdle /\ ParIdle /\ BuiltIdle /\ CsvIdle
    /\ split = [phase |-> "called"]

SplitRest == UNCHANGED <<dsvars, encvars, run, ep, par, built, csv>>

\* the train half: read trainlist01.txt, filter, write vcop_train_<config>.txt
GenTrainSplit ==
    /\ split.phase = "called"
    /\ \E frames \in SplitLists :
          split' = [phase |-> "train_written",
                    trainlist |-> read_split(frames),
                    vcop_train |-> apply_filter(read_split(frames))]
    /\ SplitRest

\* the test half: read testlist01.txt, filter, write vcop_test_<config>.txt
GenTestSplit ==
    /\ split.phase = "train_written"
    /\ \E frames \in SplitLists :
          split' = [phase |-> "done",
                    trainlist |-> split.trainlist,
                    vcop_train |-> split.vcop_train,
                    testlist |-> read_split(frames),
                    vcop_test |-> apply_filter(read_split(frames))]
    /\ SplitRest

SplitNext == GenTrainSplit \/ GenTestSplit

SpecSplit == SplitInit /\ [][SplitNext]_vars

\* the written list holds exactly the videos of the read list with at least
\* ClipFramesNeeded frames, in the order of the read list
KeptExactly(read, written) ==
    /\ \A v \in {read[k] : k \in 1..Len(read)} :
          (v.nb_frames >= ClipFramesNeeded) <=> (\E k \in 1..Len(written) : written[k] = v)
    /\ \A k \in 1..Len(written) : \E j \in 1..Len(read) : written[k] = read[j]
    /\ \A j, k \in 1..Len(written) : j < k => written[j].name < written[k].name

MaxEpochs == 3
MaxValLoss == 2
StartEpochs == {1, 2}
Inf == MaxValLoss + 1
ValLosses == 0..Inf
None == 0

\* a comparison that also takes a loss equal to the best one
improved_or_equal(val_loss, best) == val_loss <= best

\* if val_loss < prev_best_val_loss
improved(val_loss, best) == val_loss < best

\* prev_best_val_loss = float('inf'); prev_best_model_path = None; range(...)
EpochInit ==
    /\ DataIdle /\ EncIdle /\ RunIdle /\ ParIdle /\ BuiltIdle /\ SplitIdle /\ CsvIdle
    /\ \E start \in StartEpochs, epochs \in 0..MaxEpochs :
          ep = [phase |-> "running", pc |-> "epoch", start_epoch |-> start,
                epoch |-> start, stop |-> start + epochs,
                val_loss |-> Inf, prev_best_val_loss |-> Inf,
                prev_best_model_path |-> None, model_path |-> None,
                models |-> {}, best_models |-> {}, returned |-> <<>>]

EpochRest == UNCHANGED <<dsvars, encvars, run, par, built, split, csv>>

\* the next round of `for epoch in range(...)`
next_epoch(e) == [e EXCEPT !.pc = "epoch", !.epoch = @ + 1]

\* train(...); val_loss = validate(...)
EpochTrainValidate ==
    /\ ep.phase = "running" /\ ep.pc = "epoch" /\ ep.epoch < ep.stop
    /\ \E loss \in ValLosses :
          ep' = [ep EXCEPT !.val_loss = loss, !.returned = Append(@, loss),
                           !.pc = "save"]
    /\ EpochRest

\* torch.save(..., 'model_{}.pt'.format(epoch)); if val_loss < prev_best_val_loss
EpochSaveModel ==
    /\ ep.phase = "running" /\ ep.pc = "save"
    /\ ep' = LET e == [ep EXCEPT !.models = @ \cup {ep.epoch}]
             IN  IF improved(ep.val_loss, ep.prev_best_val_loss)
                 THEN [e EXCEPT !.pc = "save_best"]
                 ELSE next_epoch(e)
    /\ EpochRest

\* model_path = 'best_model_{}.pt'.format(epoch); torch.save(..., model_path);
\* prev_best_val_loss = val_loss
EpochSaveBest ==
    /\ ep.phase = "running" /\ ep.pc = "save_best"
    /\ ep' = [ep EXCEPT !.model_path = ep.epoch,
                        !.best_models = @ \cup {ep.epoch},
                        !.prev_best_val_loss = ep.val_loss,
                        !.pc = "remove"]
    /\ EpochRest

\* if prev_best_model_path: os.remove(prev_best_model_path);
\* prev_best_model_path = model_path
EpochRemovePrev ==
    /\ ep.phase = "running" /\ ep.pc = "remove"
    /\ ep' = next_epoch([ep EXCEPT
                  !.best_models = IF ep.prev_best_model_path # None
                                  THEN @ \ {ep.prev_best_model_path}
                                  ELSE @,
                  !.prev_best_model_path = ep.model_path])
    /\ EpochRest

EpochNext ==
    \/ EpochTrainValidate \/ EpochSaveModel \/ EpochSaveBest \/ EpochRemovePrev

SpecEpoch == EpochInit /\ [][EpochNext]_vars

\* the least loss validate returned so far, float('inf') when none is below it
LeastReturned ==
    CHOOSE m \in ValLosses :
        /\ \A k \in 1..Len(ep.returned) : m <= ep.returned[k]
        /\ m = Inf \/ \E k \in 1..Len(ep.returned) : ep.returned[k] = m

\* the first epoch whose validation loss was the least one
EarliestLeast ==
    ep.start_epoch - 1 +
        CHOOSE k \in 1..Len(ep.returned) :
            /\ ep.returned[k] = LeastReturned
            /\ \A j \in 1..(k - 1) : ep.returned[j] # LeastReturned

\* C17: best-checkpoint bookkeeping: after every completed epoch
\* prev_best_val_loss is the minimum validation loss returned so far, at most one
\* best_model file exists and it is the one of the earliest epoch that attained
\* the minimum; and a previous best file is removed only after the new one was
\* saved, so from the first best save on a best file exists at every step.
C17_BestCheckpoint ==
    ep.phase = "running" =>
        /\ (ep.pc = "epoch" /\ Len(ep.returned) > 0) =>
              /\ ep.prev_best_val_loss = LeastReturned
              /\ Cardinality(ep.best_models) <= 1
              /\ ep.best_models # {} => ep.best_models = {EarliestLeast}
        /\ ep.prev_best_model_path # None => ep.prev_best_model_path \in ep.best_models
        /\ ep.pc = "remove" => ep.epoch \in ep.best_models
        /\ ep.prev_best_val_loss # Inf => ep.best_models # {}

C17_Witness ==
    /\ ep.phase = "running" /\ ep.pc = "epoch"
    /\ ep.returned = <<2, 1, 1>>
    /\ ep.best_models = {ep.start_epoch + 1}
    /\ ep.models = {ep.start_epoch, ep.start_epoch + 1, ep.start_epoch + 2}

\* ----------------------------------------------------- gen_new_csv.py

\* `if(length < 80)` and `if(num[label] < 130)`
MinFrames == 80
Quota == 130

\* the rows of the input CSV, the labels they carry and the required ones
MaxRows == 3
Labels == {"a", "b", "x"}
req_labels == {"a", "b"}
\* a row as the loop body sees it: its label, whether its file exists, and what
\* skvideo.io.vread gives for the file: Unreadable (it raises) or the frame count
Rows ==
    [label : Labels, exists : BOOLEAN,
     video : {Unreadable, MinFrames - 1, MinFrames}]

\* the name videodata is not bound before the first successful vread
Unbound == 0 - 2

\* data = pd.read_csv(...); num = {}
CsvInit ==
    /\ DataIdle /\ EncIdle /\ RunIdle /\ EpIdle /\ ParIdle /\ BuiltIdle /\ SplitIdle
    /\ \E n \in 0..MaxRows :
          csv = [phase |-> "running", rows |-> n, visited |-> 0,
                 num |-> [l \in Labels |-> 0], videodata |-> Unbound,
                 dropped |-> {}, printed |-> 0]

CsvRest == UNCHANGED <<dsvars, encvars, run, ep, par, built, split>>

\* print("dropped" + str(index)); data.drop(index, inplace=True): KeyError when
\* the row is no longer in the frame
drop(c, row_index) ==
    IF c.phase # "running"
    THEN c
    ELSE IF row_index \in c.dropped
         THEN [c EXCEPT !.phase = "KeyError", !.printed = @ + 1]
         ELSE [c EXCEPT !.dropped = @ \cup {row_index}, !.printed = @ + 1]

\* lines 21-25: try: videodata = skvideo.io.vread(filename) except: drop
try_vread(c, row_index, row) ==
    IF row.video = Unreadable
    THEN drop(c, row_index)
    ELSE [c EXCEPT !.videodata = row.video]

\* line 26: length, ... = videodata.shape, NameError when videodata is unbound;
\* lines 27-29: if(length < 80): drop
length_check(c, row_index) ==
    IF c.phase # "running"
    THEN c
    ELSE IF c.videodata = Unbound
         THEN [c EXCEPT !.phase = "NameError"]
         ELSE IF c.videodata < MinFrames THEN drop(c, row_index) ELSE c

\* lines 30-37: the per-label quota; a label is in num once it was counted
quota(c, row_index, label) ==
    IF c.phase # "running"
    THEN c
    ELSE IF c.num[label] > 0
         THEN IF c.num[label] < Quota
              THEN [c EXCEPT !.num[label] = @ + 1]
              ELSE drop(c, row_index)
         ELSE [c EXCEPT !.num[label] = 1]

\* the body of `for index, row in data.iterrows()` for one row
row_body(c, row_index, row) ==
    IF (~row.exists) \/ (row.label \notin req_labels)
    THEN drop(c, row_index)
    ELSE quota(length_check(try_vread(c, row_index, row), row_index), row_index, row.label)

CsvRow ==
    /\ csv.phase = "running" /\ csv.visited < csv.rows
    /\ \E row \in Rows :
          csv' = row_body([csv EXCEPT !.visited = @ + 1], csv.visited, row)
    /\ CsvRest

\* data.to_csv("./kinetics-600_train_super_super_req.csv")
CsvWrite ==
    /\ csv.phase = "running" /\ csv.visited = csv.rows
    /\ csv' = [csv EXCEPT !.phase = "written"]
    /\ CsvRest

CsvNext == CsvRow \/ CsvWrite

SpecCsv == CsvInit /\ [][CsvNext]_vars

\* C19: the filter loop ends normally for every input: whatever the rows are
\* (file missing, label not required, video unreadable, video shorter than 80
\* frames, quota reached, or several of these), no row makes the loop raise, a
\* rejected row is removed at most once, and the loop goes on to the final write.
C19_FilterLoopCompletes ==
    csv.phase # "idle" =>
        /\ csv.phase \in {"running", "written"}
        /\ csv.printed = Cardinality(csv.dropped)

====
